---- MODULE Spec2Model ----
(***************************************************************************)
(* Model of test-qaa-agentic-ai-py.py: a start-up script that prepares two  *)
(* directories, starts runtime logging, constructs five agents, a group     *)
(* chat and its manager, reads the testing task from standard input and     *)
(* hands the conversation to the agent framework.  The framework itself is  *)
(* not part of the repository: a call into it either returns or raises,     *)
(* and while the conversation runs it may invoke the termination callback   *)
(* the script configured on the Admin agent.                                *)
(***************************************************************************)
EXTENDS Integers, Sequences, FiniteSets, TLC

VARIABLES pc, failedAt, executed, fs, fs0, stdin, stdin0, initial_task,
          loggingStarts, loggingStops, executor, constructed, groupchat,
          manager, chat_message, callback, output

vars == <<pc, failedAt, executed, fs, fs0, stdin, stdin0, initial_task,
          loggingStarts, loggingStops, executor, constructed, groupchat,
          manager, chat_message, callback, output>>

(* ------------------------------ bounds --------------------------------- *)
\* number of distinct entries a directory may already hold at start-up
NumFiles == 1
\* longest leading text put in front of a message body
MaxLead == 1
\* longest text put behind a message body
MaxTail == 2

SeqsUpTo(S, n) == UNION {[1..k -> S] : k \in 0..n}

(* --------------------------- program text ------------------------------ *)
code_execution_work_dir == "coding_workspace"
log_directory == "logs"
max_round == 5
timeout == 600

llm_config ==
  [config_list |-> << [model |-> "llama2:13b", api_type |-> "ollama",
                       base_url |-> "http://localhost:11434/api"],
                      [model |-> "deepseek-r1:8b", api_type |-> "ollama",
                       base_url |-> "http://localhost:11434/api"] >>,
   temperature |-> "0.7",
   timeout |-> timeout]

\* the sentinel the termination predicate looks for, one character per element
TERMINATE == <<"T", "E", "R", "M", "I", "N", "A", "T", "E">>

\* the fixed text in front of the task in the first message
RequestPrefix == <<
    "P", "l", "e", "a", "s", "e", " ", "c", "r", "e", "a", "t", "e", " ",
    "a", " ", "d", "e", "t", "a", "i", "l", "e", "d", " ", "t", "e", "s",
    "t", " ", "p", "l", "a", "n", ",", " ", "t", "h", "e", "n", " ", "g",
    "e", "n", "e", "r", "a", "t", "e", " ", "t", "e", "s", "t", " ", "c",
    "a", "s", "e", "s", ",", " ", "w", "r", "i", "t", "e", " ", "a", "u",
    "t", "o", "m", "a", "t", "i", "o", "n", " ", "c", "o", "d", "e", ",",
    " ", "e", "x", "e", "c", "u", "t", "e", " ", "i", "t", ",", " ", "a",
    "n", "d", " ", "f", "i", "n", "a", "l", "l", "y", " ", "a", "n", "a",
    "l", "y", "z", "e", " ", "t", "h", "e", " ", "r", "e", "s", "u", "l",
    "t", "s", " ", "f", "o", "r", ":", " " >>

\* characters str.rstrip() with no argument removes
Whitespace == {" ", "\t", "\n", "\r", "\f"}

(* ------------------------------ file system ---------------------------- *)
Paths == {code_execution_work_dir, log_directory}
Files == 1..NumFiles
AbsentPath == [exists |-> FALSE, entries |-> {}]
EmptyDir == [exists |-> TRUE, entries |-> {}]
PathStates == {AbsentPath} \cup {[exists |-> TRUE, entries |-> e] : e \in SUBSET Files}

\* os.path.exists(path)
path_exists(f, path) == f[path].exists

\* os.makedirs as if exist_ok were never passed: an existing path raises
makedirs_no_exist_ok(f, path, exist_ok) ==
  IF f[path].exists
  THEN [raised |-> TRUE, fs |-> f]
  ELSE [raised |-> FALSE, fs |-> [f EXCEPT ![path] = EmptyDir]]

\* os.makedirs(path, exist_ok): the resulting file system, or an exception
makedirs(f, path, exist_ok) ==
  IF path_exists(f, path)
  THEN [raised |-> ~exist_ok, fs |-> f]
  ELSE [raised |-> FALSE, fs |-> [f EXCEPT ![path] = EmptyDir]]

\* line 59: os.makedirs(code_execution_work_dir, exist_ok=True)
work_dir_setup(f) == makedirs(f, code_execution_work_dir, TRUE)

\* lines 38-40 of init_log: create the log directory unless the path exists
log_dir_setup(f) ==
  IF ~path_exists(f, log_directory)
  THEN makedirs(f, log_directory, FALSE)
  ELSE [raised |-> FALSE, fs |-> f]

(* ------------------------------ text ----------------------------------- *)
\* a predicate that forgets to trim: the text is compared as it is
rstrip_omitted(s) == s

\* str.rstrip(): drop the trailing run of whitespace characters
RECURSIVE rstrip(_)
rstrip(s) ==
  IF s = <<>> THEN s
  ELSE IF s[Len(s)] \in Whitespace THEN rstrip(SubSeq(s, 1, Len(s) - 1))
  ELSE s

\* str.endswith(suffix)
endswith(s, suffix) ==
  /\ Len(s) >= Len(suffix)
  /\ SubSeq(s, Len(s) - Len(suffix) + 1, Len(s)) = suffix

\* dict.get(key, default)
dict_get(x, key, default) == IF key \in DOMAIN x THEN x[key] ELSE default

\* lines 77-78: lambda x: x.get("content", "").rstrip().endswith("TERMINATE")
is_termination_msg(x) == endswith(rstrip(dict_get(x, "content", <<>>)), TERMINATE)

\* position of the first newline of a character stream, 0 when there is none
first_newline(s) ==
  IF \E i \in 1..Len(s) : s[i] = "\n"
  THEN CHOOSE i \in 1..Len(s) : s[i] = "\n" /\ \A j \in 1..(i - 1) : s[j] # "\n"
  ELSE 0

\* reading the task and trimming blanks off its end
input_trimmed(s) ==
  LET n == IF s = <<>> THEN 0 ELSE IF \E i \in 1..Len(s) : s[i] = "\n"
           THEN (CHOOSE i \in 1..Len(s) : s[i] = "\n" /\ \A j \in 1..(i - 1) : s[j] # "\n")
           ELSE 0
      raw == IF n = 0 THEN s ELSE SubSeq(s, 1, n - 1)
      cut == IF raw # <<>> /\ raw[Len(raw)] = " " THEN SubSeq(raw, 1, Len(raw) - 1) ELSE raw
  IN [raised |-> s = <<>>, line |-> cut,
      rest |-> IF n = 0 THEN <<>> ELSE SubSeq(s, n + 1, Len(s))]

\* input(): read one line from the stream without its terminator; EOFError
\* when nothing is left to read
input(s) ==
  IF s = <<>> THEN [raised |-> TRUE, line |-> <<>>, rest |-> s]
  ELSE IF first_newline(s) = 0 THEN [raised |-> FALSE, line |-> s, rest |-> <<>>]
  ELSE [raised |-> FALSE,
        line |-> SubSeq(s, 1, first_newline(s) - 1),
        rest |-> SubSeq(s, first_newline(s) + 1, Len(s))]

\* lines 160-163: the f-string passed to initiate_chat as the first message
format_request(task) == RequestPrefix \o task

(* ------------------------------ agents --------------------------------- *)
\* lines 67-79
user_proxy(ex) ==
  [name |-> "Admin",
   class |-> "UserProxyAgent",
   system_message |-> "A human administrator who oversees the process, provides tasks, and reviews outputs. Can execute code.",
   llm_config |-> llm_config,
   code_execution_config |-> [executor |-> ex, last_n_messages |-> 1],
   human_input_mode |-> "ALWAYS",
   is_termination_msg |-> "is_termination_msg"]

\* lines 82-141: the four assistant agents, keyed by the statement that
\* constructs them
assistant(label) ==
  [name |-> CASE label = "test_plan_generator" -> "TestPlanGenerator"
              [] label = "test_case_generator" -> "TestCaseGenerator"
              [] label = "code_generator" -> "CodeGenerator"
              [] label = "test_report_analyzer" -> "TestReportAnalyzer",
   class |-> "AssistantAgent",
   system_message |-> CASE label = "test_plan_generator" -> "You are an expert Test Lead."
                        [] label = "test_case_generator" -> "You are a meticulous Test Case Designer."
                        [] label = "code_generator" -> "You are a skilled Test Automation Engineer."
                        [] label = "test_report_analyzer" -> "You are an insightful QA Analyst.",
   llm_config |-> llm_config]

AssistantLabels == {"test_plan_generator", "test_case_generator",
                    "code_generator", "test_report_analyzer"}

\* the agent list with two neighbours exchanged
GroupChatArgsSwapped == <<"user_proxy", "test_case_generator", "test_plan_generator",
                          "code_generator", "test_report_analyzer">>

\* lines 147-148: the variables listed in agents=[...], in the order written
GroupChatArgs == <<"user_proxy", "test_plan_generator", "test_case_generator",
                   "code_generator", "test_report_analyzer">>

\* the agent a variable of the script is bound to
bound_to(c, v) == (CHOOSE b \in {c[i] : i \in 1..Len(c)} : b.var = v).agent

\* lines 146-151: autogen.GroupChat(agents=[...], messages=[], max_round=5)
GroupChat(c) ==
  [agents |-> [i \in 1..Len(GroupChatArgs) |-> bound_to(c, GroupChatArgs[i])],
   messages |-> <<>>,
   max_round |-> max_round]

(* --------------------------- control flow ------------------------------ *)
\* the script with init_log() called after the agents are built
ScriptLoggingLate == <<"load_dotenv", "work_dir", "temp_dir", "executor",
            "user_proxy", "test_plan_generator", "test_case_generator",
            "code_generator", "test_report_analyzer", "init_log_dir",
            "logging_start", "groupchat", "manager",
            "input", "initiate_chat", "in_chat", "print_finished",
            "logging_stop", "print_stopped">>

\* the statements of the script in the order the interpreter runs them;
\* "in_chat" is the time spent inside initiate_chat
Script == <<"load_dotenv", "work_dir", "temp_dir", "init_log_dir",
            "logging_start", "executor",
            "user_proxy", "test_plan_generator", "test_case_generator",
            "code_generator", "test_report_analyzer", "groupchat", "manager",
            "input", "initiate_chat", "in_chat", "print_finished",
            "logging_stop", "print_stopped">>

IndexOf(label) == CHOOSE i \in 1..Len(Script) : Script[i] = label

after(label) ==
  IF IndexOf(label) = Len(Script) THEN "done" ELSE Script[IndexOf(label) + 1]

\* the conversation wrapped in a handler that swallows its exception
on_exception_swallowed(label) ==
  IF label = "in_chat" THEN after(label) ELSE "error"

\* no try/except anywhere in the script: an exception ends the run
on_exception(label) == "error"

\* statements that are calls into the framework, which may raise
FrameworkCalls == {"logging_start", "executor", "user_proxy", "groupchat",
                   "manager", "in_chat", "logging_stop"} \cup AssistantLabels

\* library calls that touch nothing the script looks at afterwards
Housekeeping == {"load_dotenv", "temp_dir"}

(* ------------------------------ inputs --------------------------------- *)
\* what standard input may hold when the script starts
StdinStreams ==
  { <<>>,
    <<"a", "\n">>,
    <<" ", "a", " ", "\n">>,
    <<"a", "\n", "b", "\n">>,
    <<"\n">>,
    <<"a">>,
    TERMINATE \o <<"\n">> }

LeadChars == {"x", " "}
TailChars == {" ", "\n", "x"}
Bodies ==
  { <<>>,
    TERMINATE,
    SubSeq(TERMINATE, 1, Len(TERMINATE) - 1),
    <<"t", "e", "r", "m", "i", "n", "a", "t", "e">>,
    TERMINATE \o <<".">> }

Contents ==
  {l \o b \o t : l \in SeqsUpTo(LeadChars, MaxLead), b \in Bodies,
                 t \in SeqsUpTo(TailChars, MaxTail)}

\* message records the framework may hand to the termination predicate
MessageRecords ==
  {[role |-> "user", content |-> c] : c \in Contents} \cup {[role |-> "user"]}

(* ------------------------------ actions -------------------------------- *)
Init ==
  /\ pc = Script[1]
  /\ failedAt = "none"
  /\ executed = <<>>
  /\ fs \in [Paths -> PathStates]
  /\ fs0 = fs
  /\ stdin \in StdinStreams
  /\ stdin0 = stdin
  /\ initial_task = <<>>
  /\ loggingStarts = 0
  /\ loggingStops = 0
  /\ executor = [constructed |-> FALSE]
  /\ constructed = <<>>
  /\ groupchat = [constructed |-> FALSE]
  /\ manager = [constructed |-> FALSE]
  /\ chat_message = <<>>
  /\ callback = [called |-> FALSE]
  /\ output = <<>>

\* the statement at pc completed
Advance ==
  /\ pc' = after(pc)
  /\ executed' = Append(executed, pc)
  /\ failedAt' = failedAt

\* the statement at pc raised
Fail ==
  /\ pc' = on_exception(pc)
  /\ failedAt' = pc
  /\ executed' = executed

\* line 10 load_dotenv() and line 64 tempfile.TemporaryDirectory()
Housekeep ==
  /\ pc \in Housekeeping
  /\ Advance
  /\ UNCHANGED <<fs, fs0, stdin, stdin0, initial_task, loggingStarts,
                 loggingStops, executor, constructed, groupchat, manager,
                 chat_message, callback, output>>

\* line 59
WorkDir ==
  /\ pc = "work_dir"
  /\ LET r == work_dir_setup(fs) IN
       IF r.raised THEN Fail /\ fs' = fs ELSE Advance /\ fs' = r.fs
  /\ UNCHANGED <<fs0, stdin, stdin0, initial_task, loggingStarts, loggingStops,
                 executor, constructed, groupchat, manager, chat_message,
                 callback, output>>

\* lines 33-40
InitLogDir ==
  /\ pc = "init_log_dir"
  /\ LET r == log_dir_setup(fs) IN
       IF r.raised THEN Fail /\ fs' = fs /\ output' = output
       ELSE /\ Advance
            /\ fs' = r.fs
            /\ output' = IF path_exists(fs, log_directory) THEN output
                         ELSE Append(output, "Created directory: logs")
  /\ UNCHANGED <<fs0, stdin, stdin0, initial_task, loggingStarts, loggingStops,
                 executor, constructed, groupchat, manager, chat_message,
                 callback>>

\* lines 43-50
LoggingStart ==
  /\ pc = "logging_start"
  /\ Advance
  /\ loggingStarts' = loggingStarts + 1
  /\ output' = output \o <<"AutoGen logging started.", "Logs will be saved to">>
  /\ UNCHANGED <<fs, fs0, stdin, stdin0, initial_task, loggingStops, executor,
                 constructed, groupchat, manager, chat_message, callback>>

\* line 72
Executor ==
  /\ pc = "executor"
  /\ Advance
  /\ executor' = [constructed |-> TRUE, work_dir |-> code_execution_work_dir]
  /\ UNCHANGED <<fs, fs0, stdin, stdin0, initial_task, loggingStarts,
                 loggingStops, constructed, groupchat, manager, chat_message,
                 callback, output>>

\* lines 67-79
UserProxy ==
  /\ pc = "user_proxy"
  /\ Advance
  /\ constructed' = Append(constructed, [var |-> pc, agent |-> user_proxy(executor)])
  /\ UNCHANGED <<fs, fs0, stdin, stdin0, initial_task, loggingStarts,
                 loggingStops, executor, groupchat, manager, chat_message,
                 callback, output>>

\* lines 82-141
Assistant ==
  /\ pc \in AssistantLabels
  /\ Advance
  /\ constructed' = Append(constructed, [var |-> pc, agent |-> assistant(pc)])
  /\ UNCHANGED <<fs, fs0, stdin, stdin0, initial_task, loggingStarts,
                 loggingStops, executor, groupchat, manager, chat_message,
                 callback, output>>

\* lines 146-151
ConstructGroupChat ==
  /\ pc = "groupchat"
  /\ Advance
  /\ groupchat' = [constructed |-> TRUE] @@ GroupChat(constructed)
  /\ UNCHANGED <<fs, fs0, stdin, stdin0, initial_task, loggingStarts,
                 loggingStops, executor, constructed, manager, chat_message,
                 callback, output>>

\* line 152
ConstructManager ==
  /\ pc = "manager"
  /\ Advance
  /\ manager' = [constructed |-> TRUE, class |-> "GroupChatManager",
                 llm_config |-> llm_config]
  /\ UNCHANGED <<fs, fs0, stdin, stdin0, initial_task, loggingStarts,
                 loggingStops, executor, constructed, groupchat, chat_message,
                 callback, output>>

\* lines 157-158
ReadTask ==
  /\ pc = "input"
  /\ output' = Append(output, "What do you want to test")
  /\ LET r == input(stdin) IN
       IF r.raised THEN Fail /\ UNCHANGED <<stdin, initial_task>>
       ELSE Advance /\ initial_task' = r.line /\ stdin' = r.rest
  /\ UNCHANGED <<fs, fs0, stdin0, loggingStarts, loggingStops, executor,
                 constructed, groupchat, manager, chat_message, callback>>

\* lines 160-163: the first message is formatted and the framework takes over
InitiateChat ==
  /\ pc = "initiate_chat"
  /\ Advance
  /\ chat_message' = format_request(initial_task)
  /\ UNCHANGED <<fs, fs0, stdin, stdin0, initial_task, loggingStarts,
                 loggingStops, executor, constructed, groupchat, manager,
                 callback, output>>

\* while the conversation runs the framework may hand a message record to
\* the predicate of lines 77-78
EvalTermination ==
  /\ pc = "in_chat"
  /\ ~callback.called
  /\ \E m \in MessageRecords \cup {[role |-> "user", content |-> chat_message]} :
       callback' = [called |-> TRUE, arg |-> m, result |-> is_termination_msg(m)]
  /\ UNCHANGED <<pc, failedAt, executed, fs, fs0, stdin, stdin0, initial_task,
                 loggingStarts, loggingStops, executor, constructed, groupchat,
                 manager, chat_message, output>>

\* the predicate's result goes back to the framework
TerminationChecked ==
  /\ pc = "in_chat"
  /\ callback.called
  /\ callback' = [called |-> FALSE]
  /\ UNCHANGED <<pc, failedAt, executed, fs, fs0, stdin, stdin0, initial_task,
                 loggingStarts, loggingStops, executor, constructed, groupchat,
                 manager, chat_message, output>>

\* lines 75-76: with human_input_mode="ALWAYS" the framework may read a
\* further line from standard input during the conversation
HumanInput ==
  /\ pc = "in_chat"
  /\ ~callback.called
  /\ ~input(stdin).raised
  /\ stdin' = input(stdin).rest
  /\ UNCHANGED <<pc, failedAt, executed, fs, fs0, stdin0, initial_task,
                 loggingStarts, loggingStops, executor, constructed, groupchat,
                 manager, chat_message, callback, output>>

\* initiate_chat returns
ChatReturns ==
  /\ pc = "in_chat"
  /\ ~callback.called
  /\ Advance
  /\ UNCHANGED <<fs, fs0, stdin, stdin0, initial_task, loggingStarts,
                 loggingStops, executor, constructed, groupchat, manager,
                 chat_message, callback, output>>

\* lines 165-167
PrintFinished ==
  /\ pc = "print_finished"
  /\ Advance
  /\ output' = output \o <<"--- Conversation Finished ---", "Check the directory">>
  /\ UNCHANGED <<fs, fs0, stdin, stdin0, initial_task, loggingStarts,
                 loggingStops, executor, constructed, groupchat, manager,
                 chat_message, callback>>

\* line 170
LoggingStop ==
  /\ pc = "logging_stop"
  /\ Advance
  /\ loggingStops' = loggingStops + 1
  /\ UNCHANGED <<fs, fs0, stdin, stdin0, initial_task, loggingStarts, executor,
                 constructed, groupchat, manager, chat_message, callback,
                 output>>

\* line 171
PrintStopped ==
  /\ pc = "print_stopped"
  /\ Advance
  /\ output' = Append(output, "AutoGen logging stopped.")
  /\ UNCHANGED <<fs, fs0, stdin, stdin0, initial_task, loggingStarts,
                 loggingStops, executor, constructed, groupchat, manager,
                 chat_message, callback>>

\* a call into the framework raises; nothing in the script handles it
Raise ==
  /\ pc \in FrameworkCalls
  /\ Fail
  /\ UNCHANGED <<fs, fs0, stdin, stdin0, initial_task, loggingStarts,
                 loggingStops, executor, constructed, groupchat, manager,
                 chat_message, callback, output>>

Next ==
  \/ Housekeep
  \/ WorkDir
  \/ InitLogDir
  \/ LoggingStart
  \/ Executor
  \/ UserProxy
  \/ Assistant
  \/ ConstructGroupChat
  \/ ConstructManager
  \/ ReadTask
  \/ InitiateChat
  \/ EvalTermination
  \/ TerminationChecked
  \/ HumanInput
  \/ ChatReturns
  \/ PrintFinished
  \/ LoggingStop
  \/ PrintStopped
  \/ Raise

Spec == Init /\ [][Next]_vars

(* ------------------------------ properties ----------------------------- *)
Ran(label) == \E i \in 1..Len(executed) : executed[i] = label
Printed(line) == \E i \in 1..Len(output) : output[i] = line

\* the text, cut after some position k, ends with the sentinel there and
\* holds nothing but whitespace behind k
TrimmedEndsWithSentinel(c) ==
  \E k \in Len(TERMINATE)..Len(c) :
    /\ \A i \in 1..Len(TERMINATE) : c[k - Len(TERMINATE) + i] = TERMINATE[i]
    /\ \A i \in (k + 1)..Len(c) : c[i] \in Whitespace

\* C1: the termination predicate answers true exactly for a message whose
\* content, trailing whitespace removed, ends with TERMINATE, whatever leads
\* and whatever whitespace trails; a message without content answers false.
C1_TerminationPredicate ==
  callback.called =>
    /\ callback.result \in BOOLEAN
    /\ "content" \in DOMAIN callback.arg =>
         (callback.result <=> TrimmedEndsWithSentinel(callback.arg.content))
    /\ "content" \notin DOMAIN callback.arg => callback.result = FALSE

\* a message with leading text and trailing whitespace was judged terminating
C1_Witness ==
  /\ callback.called
  /\ callback.result
  /\ "content" \in DOMAIN callback.arg
  /\ callback.arg.content[1] = "x"
  /\ callback.arg.content[Len(callback.arg.content)] \in Whitespace

\* C4: directory setup is idempotent: both directories exist after it, a
\* missing one is created empty, a present one is reused without an error and
\* with its contents untouched, and running the setup again changes nothing.
C4_DirectorySetupIdempotent ==
  /\ failedAt \notin {"work_dir", "init_log_dir"}
  /\ Ran("work_dir") =>
       /\ path_exists(fs, code_execution_work_dir)
       /\ fs[code_execution_work_dir] =
            IF fs0[code_execution_work_dir].exists
            THEN fs0[code_execution_work_dir] ELSE EmptyDir
       /\ work_dir_setup(fs) = [raised |-> FALSE, fs |-> fs]
  /\ ~Ran("work_dir") => fs[code_execution_work_dir] = fs0[code_execution_work_dir]
  /\ Ran("init_log_dir") =>
       /\ path_exists(fs, log_directory)
       /\ fs[log_directory] =
            IF fs0[log_directory].exists THEN fs0[log_directory] ELSE EmptyDir
       /\ log_dir_setup(fs) = [raised |-> FALSE, fs |-> fs]
       /\ Printed("Created directory: logs") <=> ~fs0[log_directory].exists
  /\ ~Ran("init_log_dir") => fs[log_directory] = fs0[log_directory]

\* setup finished where the working directory was there with an entry in it
\* and the log directory was not
C4_Witness ==
  /\ Ran("init_log_dir")
  /\ fs0[code_execution_work_dir].exists
  /\ fs0[code_execution_work_dir].entries # {}
  /\ ~fs0[log_directory].exists

AgentNames == <<"Admin", "TestPlanGenerator", "TestCaseGenerator",
                "CodeGenerator", "TestReportAnalyzer">>

\* C6: the five agents are each constructed once, the group chat is built
\* from exactly these five in that order with an empty message list, and no
\* later step changes an agent or the group chat's agent list.
C6_AgentSetFixed ==
  /\ [](/\ Len(constructed) <= Len(AgentNames)
        /\ \A i \in 1..Len(constructed) :
             /\ constructed[i].agent.name = AgentNames[i]
             /\ constructed[i].agent.llm_config = llm_config
        /\ groupchat.constructed =>
             /\ Len(constructed) = Len(AgentNames)
             /\ Len(groupchat.agents) = Len(AgentNames)
             /\ \A i \in 1..Len(AgentNames) :
                  /\ groupchat.agents[i].name = AgentNames[i]
                  /\ groupchat.agents[i] = constructed[i].agent)
  /\ [][/\ Len(constructed') >= Len(constructed)
        /\ \A i \in 1..Len(constructed) : constructed'[i] = constructed[i]
        /\ groupchat.constructed => groupchat' = groupchat
        /\ (~groupchat.constructed /\ groupchat'.constructed) =>
             groupchat'.messages = <<>>]_vars

\* the conversation is running on the five agents and has taken a step
C6_Witness ==
  /\ pc = "in_chat"
  /\ callback.called
  /\ groupchat.constructed
  /\ Len(groupchat.agents) = 5

\* C7: one line is read from standard input as the task, before the
\* conversation starts, and the first message is the fixed prefix followed by
\* that line as it was typed.
C7_SingleLineTask ==
  /\ [](/\ ~Ran("input") => stdin = stdin0 /\ ~Ran("initiate_chat")
        /\ Ran("input") =>
             /\ \A i \in 1..Len(initial_task) : initial_task[i] # "\n"
             /\ Len(stdin0) >= Len(initial_task)
             /\ \A i \in 1..Len(initial_task) : stdin0[i] = initial_task[i]
             /\ \/ Len(stdin0) = Len(initial_task) /\ stdin0 # <<>>
                \/ Len(stdin0) > Len(initial_task)
                   /\ stdin0[Len(initial_task) + 1] = "\n"
        /\ Ran("initiate_chat") =>
             /\ Len(chat_message) = Len(RequestPrefix) + Len(initial_task)
             /\ \A i \in 1..Len(RequestPrefix) : chat_message[i] = RequestPrefix[i]
             /\ \A i \in 1..Len(initial_task) :
                  chat_message[Len(RequestPrefix) + i] = initial_task[i])
  /\ [][/\ (pc = "input" /\ pc' # "error") =>
             stdin' = SubSeq(stdin0, Len(initial_task') + 2, Len(stdin0))
        /\ Ran("input") => initial_task' = initial_task
        /\ Ran("initiate_chat") => chat_message' = chat_message]_vars

\* the conversation runs on a task typed with blanks around it
C7_Witness ==
  /\ pc = "in_chat"
  /\ initial_task = <<" ", "a", " ">>
  /\ Len(chat_message) = Len(RequestPrefix) + 3

\* C8: nothing is caught: a failing step ends the run in the error state with
\* exactly the steps before it done; a failure inside initiate_chat leaves
\* "Conversation Finished" unprinted and runtime logging not stopped.
C8_NoRecovery ==
  /\ pc = "error" => failedAt # "none"
  /\ failedAt # "none" =>
       /\ pc = "error"
       /\ executed = SubSeq(Script, 1, IndexOf(failedAt) - 1)
  /\ failedAt = "in_chat" =>
       /\ ~Printed("--- Conversation Finished ---")
       /\ loggingStops = 0

\* the conversation failed
C8_Witness ==
  /\ pc = "error"
  /\ failedAt = "in_chat"
  /\ loggingStarts = 1

\* C10: the working directory exists when the code executor is constructed,
\* the log directory exists when runtime logging starts, logging starts once,
\* before any agent is constructed and before the conversation, and stops
\* once, only after the conversation has ended.
C10_StartupShutdownOrder ==
  /\ [](/\ loggingStarts <= 1
        /\ loggingStops <= 1
        /\ (executor.constructed \/ constructed # <<>>) => loggingStarts = 1
        /\ Ran("initiate_chat") => loggingStarts = 1
        /\ loggingStops = 1 => Ran("in_chat")
        /\ pc = "done" => loggingStarts = 1 /\ loggingStops = 1)
  /\ [][/\ (~executor.constructed /\ executor'.constructed) =>
             path_exists(fs, code_execution_work_dir)
        /\ loggingStarts' # loggingStarts => path_exists(fs, log_directory)
        /\ loggingStops' # loggingStops => pc # "in_chat"]_vars

\* a run completed normally
C10_Witness ==
  /\ pc = "done"
  /\ loggingStops = 1
  /\ Len(constructed) = 5

====
